---- MODULE Spec2Model ----
(***************************************************************************)
(* Ledger and acquisition engine of the storefront (src/services/mockApi.ts)*)
(* over its Firestore collections users, products, transactions, requests. *)
(* Every api function is an async function: each `await` of a Firestore    *)
(* call is one step of the call, and steps of different calls interleave.  *)
(***************************************************************************)
EXTENDS Integers, Sequences, FiniteSets

\* ------------------------------------------------------------------ bounds
\* number of api calls issued in one behaviour
NCalls == 3
\* Date.now() advances at most this far
MaxNow == 1

\* ------------------------------------------------------- program constants
\* mockApi.ts:111,114,121  subscription fee
ProFee == 999
\* mockApi.ts:116  365 * 86400000 ms, counted in days here
ProDuration == 365

\* --------------------------------------------------------------- inputs
UserIds == {"u1"}
\* a uid with no document in 'users'
MissingUserIds == {"u0"}
AllUserIds == UserIds \cup MissingUserIds
ProductIds == {"p1"}
\* an id with no document in 'products'
MissingProductIds == {"p0"}
AllProductIds == ProductIds \cup MissingProductIds
\* amounts handed to addFunds
DepositAmounts == {1000}
\* amounts a caller may hand to addFunds: nothing in the code restricts them
AnyAmounts == {1000, 0, -500}
\* a deposit that covers the subscription fee twice
RenewAmounts == {ProFee + ProFee}
\* the price field of the submitted product p1
PriceOf(p) == 600
\* product ids handed to toggleWishlist (the call never looks the product up)
WishIds == {"p1", "p2"}
\* the filter specs handed to saveUserFilter
FilterNames == {"cheap", "new"}

Calls == 1..NCalls
NoExpiry == -1
NoTime == -1

VARIABLES
    users,          \* collection 'users': uid -> document
    products,       \* collection 'products': id -> document
    transactions,   \* collection 'transactions' in creation order
    requests,       \* collection 'requests' in creation order
    calls,          \* the api calls: operation, arguments, position, locals
    now             \* Date.now()

vars == <<users, products, transactions, requests, calls, now>>

\* ------------------------------------------------------------ documents
\* mockApi.ts:52-65 / 75-89: a freshly created account
NewUser ==
    [exists |-> TRUE, walletBalance |-> 0, isPro |-> FALSE, proExpiry |-> NoExpiry,
     wishlist |-> <<>>, savedFilters |-> <<>>]

\* mockApi.ts:174-188: a freshly submitted product
NewProduct(p) ==
    [exists |-> TRUE, price |-> PriceOf(p), approved |-> FALSE, rejected |-> FALSE,
     salesCount |-> 0, viewCount |-> 0, downloadCount |-> 0]
\* no document under that id
NoProductDoc ==
    [exists |-> FALSE, price |-> 0, approved |-> FALSE, rejected |-> FALSE,
     salesCount |-> 0, viewCount |-> 0, downloadCount |-> 0]

\* what getDoc(...).data() yields for getSellerData (mockApi.ts:96-99)
NoUser == [exists |-> FALSE, walletBalance |-> 0]
\* no document under that uid
NoAccount ==
    [exists |-> FALSE, walletBalance |-> 0, isPro |-> FALSE, proExpiry |-> NoExpiry,
     wishlist |-> <<>>, savedFilters |-> <<>>]
UserSnapshot(u) ==
    IF users[u].exists
    THEN [exists |-> TRUE, walletBalance |-> users[u].walletBalance]
    ELSE NoUser

\* what getProductById returns (mockApi.ts:158-163): the data read by getDoc
\* (of the product's data the callers use the price alone)
NoProduct == [exists |-> FALSE, price |-> 0]
ProductSnapshot(p) ==
    IF products[p].exists
    THEN [exists |-> TRUE, price |-> products[p].price]
    ELSE NoProduct

\* mockApi.ts:172  productData: any. The fields a payload can carry that
\* submitProduct or the moderation also write; a field left out is one that
\* reads as false or 0
PayloadCounts == {0, 7}
Payloads ==
    {[approved |-> a, rejected |-> r, viewCount |-> n, salesCount |-> n,
      downloadCount |-> n] : a \in BOOLEAN, r \in BOOLEAN, n \in PayloadCounts}
NoPayload ==
    [approved |-> FALSE, rejected |-> FALSE, viewCount |-> 0, salesCount |-> 0,
     downloadCount |-> 0]

\* a call not yet issued. activeAtCall records, when createRequest is called,
\* whether the (account, product) pair had an active request at that moment.
\* An observed call notes the rank of its balance write among the balance
\* writes (writeNo) and the position of its transaction record in the log
\* (logNo); calls are observed under SpecOrder alone. list is the array a
\* profile call has computed from the account it read and is about to write.
IdleCall ==
    [op |-> "none", st |-> "idle", pc |-> "-", userId |-> "-", productId |-> "-",
     amount |-> 0, isWalletPurchase |-> FALSE, user |-> NoUser, product |-> NoProduct,
     activeAtCall |-> FALSE, observed |-> FALSE, writeNo |-> 0, logNo |-> 0,
     filterId |-> NoTime, filterName |-> "-", list |-> <<>>, payload |-> NoPayload,
     result |-> "-"]

\* The account exists with the fields register/syncExternalUser give it; the
\* product is as submitted, or approved by the administrator since then.
Init ==
    /\ users = [u \in AllUserIds |-> IF u \in UserIds THEN NewUser ELSE NoAccount]
    /\ \E a \in BOOLEAN :
          products = [p \in AllProductIds |->
                         IF p \in ProductIds
                         THEN [NewProduct(p) EXCEPT !.approved = a]
                         ELSE NoProductDoc]
    /\ transactions = <<>>
    /\ requests = <<>>
    /\ calls = [c \in Calls |-> IdleCall]
    /\ now = 0

\* call slots are interchangeable: they are taken in order
CanStart(c) == calls[c].st = "idle" /\ \A d \in Calls : d < c => calls[d].st # "idle"
Running(c, o, l) == calls[c].st = "run" /\ calls[c].op = o /\ calls[c].pc = l

Finish(c, status, res) ==
    [calls EXCEPT ![c].st = status, ![c].pc = "-", ![c].result = res]
Goto(c, l) == [calls EXCEPT ![c].pc = l]
\* Goto after the call's balance write / after its transaction record
AfterBalanceWrite(c, l) ==
    [calls EXCEPT ![c].pc = l,
                  ![c].writeNo = IF calls[c].observed
                                 THEN 1 + Cardinality({d \in Calls : calls[d].writeNo > 0})
                                 ELSE 0]
AfterRecord(c, l) ==
    [calls EXCEPT ![c].pc = l,
                  ![c].logNo = IF calls[c].observed THEN Len(transactions) + 1 ELSE 0]

\* a transaction document that records every amount as a positive number
TxnUnsigned(u, amt, type) ==
    [userId |-> u, amount |-> IF amt < 0 THEN -amt ELSE amt, type |-> type]

\* a transaction document (mockApi.ts:119-125, 198-204, 225-231)
Txn(u, amt, type) == [userId |-> u, amount |-> amt, type |-> type]

\* ------------------------------------------------------------- addFunds
AddFundsCall(c, u, amt) ==
    /\ CanStart(c)
    /\ calls' = [calls EXCEPT ![c] =
          [calls[c] EXCEPT !.op = "addFunds", !.st = "run", !.pc = "updateBalance",
                           !.userId = u, !.amount = amt]]
    /\ UNCHANGED <<users, products, transactions, requests, now>>

\* addFunds' write as setDoc(userRef, {...}, {merge: true}) would make it: the
\* document is created when it is missing
AddFundsUpdateUpsert(c) ==
    /\ Running(c, "addFunds", "updateBalance")
    /\ LET u == calls[c].userId IN
         users' = [users EXCEPT ![u].exists = TRUE,
                                ![u].walletBalance = @ + calls[c].amount]
    /\ calls' = AfterBalanceWrite(c, "addTransaction")
    /\ UNCHANGED <<products, transactions, requests, now>>

\* mockApi.ts:197  updateDoc(userRef, {walletBalance: increment(amount)})
AddFundsUpdate(c) ==
    /\ Running(c, "addFunds", "updateBalance")
    /\ LET u == calls[c].userId IN
         IF users[u].exists
         THEN /\ users' = [users EXCEPT ![u].walletBalance = @ + calls[c].amount]
              /\ calls' = AfterBalanceWrite(c, "addTransaction")
         ELSE /\ users' = users
              /\ calls' = Finish(c, "err", "not-found")
    /\ UNCHANGED <<products, transactions, requests, now>>

\* mockApi.ts:198-204  addDoc(collection(db, 'transactions'), ...)
AddFundsRecord(c) ==
    /\ Running(c, "addFunds", "addTransaction")
    /\ transactions' = Append(transactions, Txn(calls[c].userId, calls[c].amount, "deposit"))
    /\ calls' = AfterRecord(c, "readBack")
    /\ UNCHANGED <<users, products, requests, now>>

\* mockApi.ts:205-206
AddFundsReturn(c) ==
    /\ Running(c, "addFunds", "readBack")
    /\ calls' = Finish(c, "ok", "ok")
    /\ UNCHANGED <<users, products, transactions, requests, now>>

\* ------------------------------------------------------------ upgradeToPro
UpgradeToProCall(c, u) ==
    /\ CanStart(c)
    /\ calls' = [calls EXCEPT ![c] =
          [calls[c] EXCEPT !.op = "upgradeToPro", !.st = "run", !.pc = "getUser",
                           !.userId = u, !.amount = ProFee]]
    /\ UNCHANGED <<users, products, transactions, requests, now>>

\* mockApi.ts:111  user.walletBalance < 999
CannotAffordPro(balance) == balance < ProFee

\* mockApi.ts:109-111  read the account, return null or throw
UpgradeToProRead(c) ==
    /\ Running(c, "upgradeToPro", "getUser")
    /\ LET user == UserSnapshot(calls[c].userId) IN
         calls' = IF ~user.exists
                    THEN Finish(c, "err", "null")
                  ELSE IF CannotAffordPro(user.walletBalance)
                    THEN Finish(c, "err", "insufficient-balance")
                  ELSE [calls EXCEPT ![c].pc = "updateUser", ![c].user = user]
    /\ UNCHANGED <<users, products, transactions, requests, now>>

\* upgradeToPro's write with the debit alone, the Pro fields left to a later
\* write
UpgradeToProUpdateDebitOnly(c) ==
    /\ Running(c, "upgradeToPro", "updateUser")
    /\ users' = [users EXCEPT ![calls[c].userId].walletBalance = @ - ProFee]
    /\ calls' = AfterBalanceWrite(c, "addTransaction")
    /\ UNCHANGED <<products, transactions, requests, now>>

\* upgradeToPro's write extending a running subscription from its expiry
UpgradeToProUpdateAdditive(c) ==
    /\ Running(c, "upgradeToPro", "updateUser")
    /\ LET u == calls[c].userId IN
         users' = [users EXCEPT ![u].walletBalance = @ - ProFee,
                                ![u].isPro = TRUE,
                                ![u].proExpiry = (IF users[u].isPro THEN @ ELSE now)
                                                 + ProDuration]
    /\ calls' = AfterBalanceWrite(c, "addTransaction")
    /\ UNCHANGED <<products, transactions, requests, now>>

\* upgradeToPro's write without the proExpiry field
UpgradeToProUpdateNoExpiry(c) ==
    /\ Running(c, "upgradeToPro", "updateUser")
    /\ LET u == calls[c].userId IN
         users' = [users EXCEPT ![u].walletBalance = @ - ProFee,
                                ![u].isPro = TRUE]
    /\ calls' = AfterBalanceWrite(c, "addTransaction")
    /\ UNCHANGED <<products, transactions, requests, now>>

\* mockApi.ts:113-117  one updateDoc: increment(-999), isPro, proExpiry
UpgradeToProUpdate(c) ==
    /\ Running(c, "upgradeToPro", "updateUser")
    /\ LET u == calls[c].userId IN
         users' = [users EXCEPT ![u].walletBalance = @ - ProFee,
                                ![u].isPro = TRUE,
                                ![u].proExpiry = now + ProDuration]
    /\ calls' = AfterBalanceWrite(c, "addTransaction")
    /\ UNCHANGED <<products, transactions, requests, now>>

\* mockApi.ts:119-125
UpgradeToProRecord(c) ==
    /\ Running(c, "upgradeToPro", "addTransaction")
    /\ transactions' = Append(transactions, Txn(calls[c].userId, -ProFee, "subscription"))
    /\ calls' = AfterRecord(c, "readBack")
    /\ UNCHANGED <<users, products, requests, now>>

\* mockApi.ts:127
UpgradeToProReturn(c) ==
    /\ Running(c, "upgradeToPro", "readBack")
    /\ calls' = Finish(c, "ok", "ok")
    /\ UNCHANGED <<users, products, transactions, requests, now>>

\* ----------------------------------------------------------- createRequest
\* types.ts:6-10, spec: a request is active while pending or approved
ActiveRequests(u, p) ==
    {i \in DOMAIN requests :
        /\ requests[i].userId = u
        /\ requests[i].productId = p
        /\ requests[i].status \in {"pending", "approved"}}

CreateRequestCall(c, u, p, wallet) ==
    /\ CanStart(c)
    /\ calls' = [calls EXCEPT ![c] =
          [calls[c] EXCEPT !.op = "createRequest", !.st = "run", !.pc = "getUser",
                           !.userId = u, !.productId = p, !.isWalletPurchase = wallet,
                           !.activeAtCall = (ActiveRequests(u, p) # {})]]
    /\ UNCHANGED <<users, products, transactions, requests, now>>

\* mockApi.ts:216  const user = await api.getSellerData(userId)
CreateRequestReadUser(c) ==
    /\ Running(c, "createRequest", "getUser")
    /\ calls' = [calls EXCEPT ![c].pc = "getProduct",
                              ![c].user = UserSnapshot(calls[c].userId)]
    /\ UNCHANGED <<users, products, transactions, requests, now>>

\* the check looks for an overdrawn balance instead of comparing with the price
CannotAffordOverdrawnOnly(balance, price) == balance < 0

\* mockApi.ts:222  user.walletBalance < product.price
CannotAfford(balance, price) == balance < price

\* the wallet branch is taken whatever isWalletPurchase says
AfterReadsAlwaysCharges(c, user, product) ==
    IF ~user.exists \/ ~product.exists
      THEN Finish(c, "err", "entity-missing")
    ELSE IF CannotAfford(user.walletBalance, product.price)
      THEN Finish(c, "err", "insufficient-balance")
    ELSE [calls EXCEPT ![c].pc = "updateBalance", ![c].product = product,
                       ![c].amount = product.price]

\* mockApi.ts:219-222  the checks between the reads and the first write
AfterReads(c, user, product) ==
    IF ~user.exists \/ ~product.exists
      THEN Finish(c, "err", "entity-missing")
    ELSE IF calls[c].isWalletPurchase /\ CannotAfford(user.walletBalance, product.price)
      THEN Finish(c, "err", "insufficient-balance")
    ELSE IF calls[c].isWalletPurchase
      THEN [calls EXCEPT ![c].pc = "updateBalance", ![c].product = product,
                         ![c].amount = product.price]
    ELSE [calls EXCEPT ![c].pc = "addRequest", ![c].product = product]

\* mockApi.ts:158-159,163  getProductById: getDoc; a missing product yields null
CreateRequestReadProduct(c) ==
    /\ Running(c, "createRequest", "getProduct")
    /\ LET product == ProductSnapshot(calls[c].productId) IN
         calls' = IF product.exists
                    THEN [calls EXCEPT ![c].pc = "viewCount", ![c].product = product]
                    ELSE AfterReads(c, calls[c].user, product)
    /\ UNCHANGED <<users, products, transactions, requests, now>>

\* mockApi.ts:160-161  getProductById: viewCount increment, then lines 219-222
CreateRequestView(c) ==
    /\ Running(c, "createRequest", "viewCount")
    /\ products' = [products EXCEPT ![calls[c].productId].viewCount = @ + 1]
    /\ calls' = AfterReads(c, calls[c].user, calls[c].product)
    /\ UNCHANGED <<users, transactions, requests, now>>

\* the purchase credits the price instead of debiting it
PurchaseDeltaSignSlip(price) == price

\* mockApi.ts:223  increment(-product.price)
PurchaseDelta(price) == -price

\* mockApi.ts:223  updateDoc(doc(db, 'users', userId), {walletBalance: increment(...)})
CreateRequestCharge(c) ==
    /\ Running(c, "createRequest", "updateBalance")
    /\ users' = [users EXCEPT ![calls[c].userId].walletBalance =
                                  @ + PurchaseDelta(calls[c].product.price)]
    /\ calls' = AfterBalanceWrite(c, "salesCount")
    /\ UNCHANGED <<products, transactions, requests, now>>

\* the purchase goes on to its record without counting the sale
CreateRequestSaleSkipped(c) ==
    /\ Running(c, "createRequest", "salesCount")
    /\ calls' = Goto(c, "addTransaction")
    /\ UNCHANGED <<users, products, transactions, requests, now>>

\* mockApi.ts:224  salesCount: increment(1)
CreateRequestSale(c) ==
    /\ Running(c, "createRequest", "salesCount")
    /\ products' = [products EXCEPT ![calls[c].productId].salesCount = @ + 1]
    /\ calls' = Goto(c, "addTransaction")
    /\ UNCHANGED <<users, transactions, requests, now>>

\* the purchase goes on to the request without recording its transaction
CreateRequestRecordSkipped(c) ==
    /\ Running(c, "createRequest", "addTransaction")
    /\ calls' = Goto(c, "addRequest")
    /\ UNCHANGED <<users, products, transactions, requests, now>>

\* mockApi.ts:225-231
CreateRequestRecord(c) ==
    /\ Running(c, "createRequest", "addTransaction")
    /\ transactions' = Append(transactions,
                              Txn(calls[c].userId, -calls[c].product.price, "purchase"))
    /\ calls' = AfterRecord(c, "addRequest")
    /\ UNCHANGED <<users, products, requests, now>>

\* every request is created pending, the wallet purchase too
NewRequestAlwaysPending(u, p, wallet, t) ==
    [userId |-> u, productId |-> p, status |-> "pending", approvedAt |-> NoTime,
     isWalletPurchase |-> wallet]

\* mockApi.ts:234-242
NewRequest(u, p, wallet, t) ==
    [userId |-> u, productId |-> p,
     status |-> IF wallet THEN "approved" ELSE "pending",
     approvedAt |-> IF wallet THEN t ELSE NoTime,
     isWalletPurchase |-> wallet]

\* mockApi.ts:243-244
CreateRequestAdd(c) ==
    /\ Running(c, "createRequest", "addRequest")
    /\ requests' = Append(requests,
          NewRequest(calls[c].userId, calls[c].productId, calls[c].isWalletPurchase, now))
    /\ calls' = Finish(c, "ok", "ok")
    /\ UNCHANGED <<users, products, transactions, now>>

\* --------------------------------------------------------------- accounts
\* Firebase Auth knows the identity: it has an account since before, a
\* register call has created it (mockApi.ts:51), or it has signed in, which
\* is when syncExternalUser is called with it (App.tsx:130-133, 162)
Registered(u) ==
    \/ u \in UserIds
    \/ \E d \in Calls :
          /\ calls[d].userId = u
          /\ \/ calls[d].op = "syncExternalUser"
             \/ calls[d].op = "register" /\ (calls[d].pc = "setUser" \/ calls[d].st = "ok")

SyncExternalUserCall(c, u) ==
    /\ CanStart(c)
    /\ calls' = [calls EXCEPT ![c] =
          [calls[c] EXCEPT !.op = "syncExternalUser", !.st = "run", !.pc = "getUser",
                           !.userId = u]]
    /\ UNCHANGED <<users, products, transactions, requests, now>>

\* mockApi.ts:71-74  getDoc; an existing account is returned as it is
SyncExternalUserRead(c) ==
    /\ Running(c, "syncExternalUser", "getUser")
    /\ calls' = IF users[calls[c].userId].exists
                  THEN Finish(c, "ok", "existing")
                  ELSE Goto(c, "setUser")
    /\ UNCHANGED <<users, products, transactions, requests, now>>

\* mockApi.ts:75-91  setDoc(doc(db, 'users', uid), newUser): the document is
\* replaced whole
SyncExternalUserSet(c) ==
    /\ Running(c, "syncExternalUser", "setUser")
    /\ users' = [users EXCEPT ![calls[c].userId] = NewUser]
    /\ calls' = Finish(c, "ok", "created")
    /\ UNCHANGED <<products, transactions, requests, now>>

RegisterCall(c, u) ==
    /\ CanStart(c)
    /\ calls' = [calls EXCEPT ![c] =
          [calls[c] EXCEPT !.op = "register", !.st = "run", !.pc = "createUser",
                           !.userId = u]]
    /\ UNCHANGED <<users, products, transactions, requests, now>>

\* mockApi.ts:51  createUserWithEmailAndPassword rejects for a known identity
RegisterCreate(c) ==
    /\ Running(c, "register", "createUser")
    /\ calls' = IF Registered(calls[c].userId)
                  THEN Finish(c, "err", "email-already-in-use")
                  ELSE Goto(c, "setUser")
    /\ UNCHANGED <<users, products, transactions, requests, now>>

\* mockApi.ts:52-67  setDoc(doc(db, 'users', cred.user.uid), newUser)
RegisterSet(c) ==
    /\ Running(c, "register", "setUser")
    /\ users' = [users EXCEPT ![calls[c].userId] = NewUser]
    /\ calls' = Finish(c, "ok", "created")
    /\ UNCHANGED <<products, transactions, requests, now>>

\* ---------------------------------------------------------------- profile
Range(f) == {f[i] : i \in DOMAIN f}

\* mockApi.ts:284-286  includes ? filter : push
Toggle(wishlist, p) ==
    IF p \in Range(wishlist)
    THEN SelectSeq(wishlist, LAMBDA id : id # p)
    ELSE Append(wishlist, p)

\* a profile call: mockApi.ts:282-283, 292-293, 300-301
ProfileCall(c) ==
    /\ CanStart(c)
    /\ UNCHANGED <<users, products, transactions, requests, now>>

ToggleWishlistCall(c, u, p) ==
    /\ ProfileCall(c)
    /\ calls' = [calls EXCEPT ![c] =
          [calls[c] EXCEPT !.op = "toggleWishlist", !.st = "run", !.pc = "getUser",
                           !.userId = u, !.productId = p]]

\* mockApi.ts:282-286  read the account, return [] or compute the new array
ToggleWishlistRead(c) ==
    /\ Running(c, "toggleWishlist", "getUser")
    /\ LET u == calls[c].userId IN
         calls' = IF ~users[u].exists
                    THEN Finish(c, "err", "empty")
                  ELSE [calls EXCEPT ![c].pc = "updateUser",
                                     ![c].list = Toggle(users[u].wishlist, calls[c].productId)]
    /\ UNCHANGED <<users, products, transactions, requests, now>>

\* mockApi.ts:287-288  updateDoc(doc(db, 'users', userId), { wishlist })
ToggleWishlistWrite(c) ==
    /\ Running(c, "toggleWishlist", "updateUser")
    /\ users' = [users EXCEPT ![calls[c].userId].wishlist = calls[c].list]
    /\ calls' = Finish(c, "ok", "ok")
    /\ UNCHANGED <<products, transactions, requests, now>>

\* mockApi.ts:294  { ...filter, id: `filt${Date.now()}` }
NewFilter(name, t) == [id |-> t, name |-> name]

SaveUserFilterCall(c, u, name) ==
    /\ ProfileCall(c)
    /\ calls' = [calls EXCEPT ![c] =
          [calls[c] EXCEPT !.op = "saveUserFilter", !.st = "run", !.pc = "getUser",
                           !.userId = u, !.filterName = name]]

\* mockApi.ts:292-294
SaveUserFilterRead(c) ==
    /\ Running(c, "saveUserFilter", "getUser")
    /\ LET u == calls[c].userId IN
         calls' = IF ~users[u].exists
                    THEN Finish(c, "err", "empty")
                  ELSE [calls EXCEPT ![c].pc = "updateUser",
                                     ![c].filterId = now,
                                     ![c].list = Append(users[u].savedFilters,
                                                        NewFilter(calls[c].filterName, now))]
    /\ UNCHANGED <<users, products, transactions, requests, now>>

\* mockApi.ts:295-296  updateDoc(doc(db, 'users', userId), { savedFilters: newFilters })
SaveUserFilterWrite(c) ==
    /\ Running(c, "saveUserFilter", "updateUser")
    /\ users' = [users EXCEPT ![calls[c].userId].savedFilters = calls[c].list]
    /\ calls' = Finish(c, "ok", "ok")
    /\ UNCHANGED <<products, transactions, requests, now>>

\* mockApi.ts:302  filter(f => f.id !== filterId)
WithoutFilter(filters, id) == SelectSeq(filters, LAMBDA f : f.id # id)

DeleteUserFilterCall(c, u, id) ==
    /\ ProfileCall(c)
    /\ calls' = [calls EXCEPT ![c] =
          [calls[c] EXCEPT !.op = "deleteUserFilter", !.st = "run", !.pc = "getUser",
                           !.userId = u, !.filterId = id]]

\* mockApi.ts:300-302
DeleteUserFilterRead(c) ==
    /\ Running(c, "deleteUserFilter", "getUser")
    /\ LET u == calls[c].userId IN
         calls' = IF ~users[u].exists
                    THEN Finish(c, "err", "empty")
                  ELSE [calls EXCEPT ![c].pc = "updateUser",
                                     ![c].list = WithoutFilter(users[u].savedFilters,
                                                               calls[c].filterId)]
    /\ UNCHANGED <<users, products, transactions, requests, now>>

\* mockApi.ts:303-304  updateDoc(doc(db, 'users', userId), { savedFilters: filtered })
DeleteUserFilterWrite(c) ==
    /\ Running(c, "deleteUserFilter", "updateUser")
    /\ users' = [users EXCEPT ![calls[c].userId].savedFilters = calls[c].list]
    /\ calls' = Finish(c, "ok", "ok")
    /\ UNCHANGED <<products, transactions, requests, now>>

\* ----------------------------------------------------------- getProductById
GetProductByIdCall(c, p) ==
    /\ CanStart(c)
    /\ calls' = [calls EXCEPT ![c] =
          [calls[c] EXCEPT !.op = "getProductById", !.st = "run", !.pc = "getProduct",
                           !.productId = p]]
    /\ UNCHANGED <<users, products, transactions, requests, now>>

\* mockApi.ts:158-159,163  getDoc; a missing product yields null
GetProductByIdRead(c) ==
    /\ Running(c, "getProductById", "getProduct")
    /\ LET product == ProductSnapshot(calls[c].productId) IN
         calls' = IF product.exists
                    THEN [calls EXCEPT ![c].pc = "viewCount", ![c].product = product]
                    ELSE Finish(c, "err", "null")
    /\ UNCHANGED <<users, products, transactions, requests, now>>

\* mockApi.ts:160-161  updateDoc(..., { viewCount: increment(1) })
GetProductByIdView(c) ==
    /\ Running(c, "getProductById", "viewCount")
    /\ products' = [products EXCEPT ![calls[c].productId].viewCount = @ + 1]
    /\ calls' = Finish(c, "ok", "ok")
    /\ UNCHANGED <<users, transactions, requests, now>>

\* ------------------------------------------------------------ submitProduct
\* mockApi.ts:174-188  { ...productData, approved: false, salesCount: 0,
\* viewCount: 0, downloadCount: 0, ... }: the spread comes first, the fields
\* named after it replace the payload's, the others stay
SubmittedProduct(p, payload) ==
    [exists |-> TRUE, price |-> PriceOf(p),
     approved |-> FALSE, rejected |-> payload.rejected,
     salesCount |-> 0, viewCount |-> 0, downloadCount |-> 0]

SubmitProductCall(c, u, payload) ==
    /\ CanStart(c)
    /\ calls' = [calls EXCEPT ![c] =
          [calls[c] EXCEPT !.op = "submitProduct", !.st = "run", !.pc = "getUser",
                           !.userId = u, !.payload = payload]]
    /\ UNCHANGED <<users, products, transactions, requests, now>>

\* mockApi.ts:173  const user = await api.getSellerData(userId)
SubmitProductRead(c) ==
    /\ Running(c, "submitProduct", "getUser")
    /\ calls' = Goto(c, "addProduct")
    /\ UNCHANGED <<users, products, transactions, requests, now>>

\* mockApi.ts:189-190  addDoc(collection(db, 'products'), newProduct): the
\* document gets an id no document has
SubmitProductAdd(c) ==
    /\ Running(c, "submitProduct", "addProduct")
    /\ \E p \in AllProductIds :
          /\ ~products[p].exists
          /\ products' = [products EXCEPT ![p] = SubmittedProduct(p, calls[c].payload)]
          /\ calls' = [Finish(c, "ok", "ok") EXCEPT ![c].productId = p]
    /\ UNCHANGED <<users, transactions, requests, now>>

\* --------------------------------------------------------------- moderation
\* types.ts:75 / mockApi.ts:133,178,271,277: the moderation state a product
\* document stands for; the catalogue lists a product iff approved is true
ModerationState(doc) ==
    IF doc.approved THEN "approved"
    ELSE IF doc.rejected THEN "rejected"
    ELSE "pending"

\* approveProduct writing with setDoc: the document is replaced by one that
\* has the approved flag and fresh counters
ApproveProductOverwrites(p) ==
    /\ products[p].exists
    /\ products' = [products EXCEPT ![p] = [NewProduct(p) EXCEPT !.approved = TRUE]]
    /\ UNCHANGED <<users, transactions, requests, calls, now>>

\* mockApi.ts:270-273  updateDoc(..., {approved: true})
ApproveProduct(p) ==
    /\ products[p].exists
    /\ products' = [products EXCEPT ![p].approved = TRUE]
    /\ UNCHANGED <<users, transactions, requests, calls, now>>

\* mockApi.ts:275-279  updateDoc(..., {approved: false, rejected: true})
RejectProduct(p) ==
    /\ products[p].exists
    /\ products' = [products EXCEPT ![p].approved = FALSE, ![p].rejected = TRUE]
    /\ UNCHANGED <<users, transactions, requests, calls, now>>

\* ------------------------------------------------------------------ faults
\* An awaited Firestore call rejects, or the caller goes away while it is
\* pending: the async function ends there, the writes it made so far stay
\* (no try/catch or compensation in mockApi.ts).
Fault(c) ==
    /\ calls[c].st = "run"
    /\ calls[c].pc \notin {"getUser", "getProduct", "readBack"}
    /\ calls' = [calls EXCEPT ![c].st = "fault"]
    /\ UNCHANGED <<users, products, transactions, requests, now>>

\* ------------------------------------------------------------------- time
\* Date.now() (mockApi.ts:116, 240) moves on between two steps
Tick ==
    /\ now < MaxNow
    /\ now' = now + 1
    /\ UNCHANGED <<users, products, transactions, requests, calls>>

Step(c) ==
    \/ \E u \in UserIds, amt \in DepositAmounts : AddFundsCall(c, u, amt)
    \/ AddFundsUpdate(c)
    \/ AddFundsRecord(c)
    \/ AddFundsReturn(c)
    \/ \E u \in UserIds : UpgradeToProCall(c, u)
    \/ UpgradeToProRead(c)
    \/ UpgradeToProUpdate(c)
    \/ UpgradeToProRecord(c)
    \/ UpgradeToProReturn(c)
    \/ \E u \in UserIds, p \in ProductIds, wallet \in BOOLEAN :
          CreateRequestCall(c, u, p, wallet)
    \/ CreateRequestReadUser(c)
    \/ CreateRequestReadProduct(c)
    \/ CreateRequestView(c)
    \/ CreateRequestCharge(c)
    \/ CreateRequestSale(c)
    \/ CreateRequestRecord(c)
    \/ CreateRequestAdd(c)

Moderate ==
    \E p \in ProductIds : ApproveProduct(p) \/ RejectProduct(p)

Next ==
    \E c \in Calls : Step(c)

\* the calls interleave and every awaited Firestore call resolves
Spec == Init /\ [][Next]_vars

NextModeration ==
    \/ Next
    \/ Moderate

\* as Spec, with the administrator approving and rejecting meanwhile
SpecModeration == Init /\ [][NextModeration]_vars

NextFault ==
    \/ Next
    \/ \E c \in Calls : Fault(c)

\* as Spec, and an awaited Firestore write may reject
SpecFault == Init /\ [][NextFault]_vars

\* as Spec, with every call observed (see IdleCall)
InitOrder ==
    /\ users = [u \in AllUserIds |-> IF u \in UserIds THEN NewUser ELSE NoAccount]
    /\ products = [p \in AllProductIds |->
                      IF p \in ProductIds
                      THEN [NewProduct(p) EXCEPT !.approved = TRUE]
                      ELSE NoProductDoc]
    /\ transactions = <<>>
    /\ requests = <<>>
    /\ calls = [c \in Calls |-> [IdleCall EXCEPT !.observed = TRUE]]
    /\ now = 0

SpecOrder == InitOrder /\ [][Next]_vars

\* addFunds and upgradeToPro with any uid and any amount a caller can pass
NextDeposit ==
    \E c \in Calls :
        \/ \E u \in AllUserIds, amt \in AnyAmounts : AddFundsCall(c, u, amt)
        \/ AddFundsUpdate(c)
        \/ AddFundsRecord(c)
        \/ AddFundsReturn(c)
        \/ \E u \in AllUserIds : UpgradeToProCall(c, u)
        \/ UpgradeToProRead(c)
        \/ UpgradeToProUpdate(c)
        \/ UpgradeToProRecord(c)
        \/ UpgradeToProReturn(c)

SpecDeposit == Init /\ [][NextDeposit]_vars

\* addFunds and upgradeToPro on the account while time passes
NextUpgrade ==
    \/ \E c \in Calls :
          \/ \E u \in UserIds, amt \in DepositAmounts : AddFundsCall(c, u, amt)
          \/ AddFundsUpdate(c)
          \/ AddFundsRecord(c)
          \/ AddFundsReturn(c)
          \/ \E u \in UserIds : UpgradeToProCall(c, u)
          \/ UpgradeToProRead(c)
          \/ UpgradeToProUpdate(c)
          \/ UpgradeToProRecord(c)
          \/ UpgradeToProReturn(c)
    \/ Tick

SpecUpgrade == Init /\ [][NextUpgrade]_vars

\* upgradeToPro again and again on an account funded for two fees, while time
\* passes
NextRenew ==
    \/ \E c \in Calls :
          \/ \E u \in UserIds, amt \in RenewAmounts : AddFundsCall(c, u, amt)
          \/ AddFundsUpdate(c)
          \/ AddFundsRecord(c)
          \/ AddFundsReturn(c)
          \/ \E u \in UserIds : UpgradeToProCall(c, u)
          \/ UpgradeToProRead(c)
          \/ UpgradeToProUpdate(c)
          \/ UpgradeToProRecord(c)
          \/ UpgradeToProReturn(c)
    \/ Tick

SpecRenew == Init /\ [][NextRenew]_vars

\* sign-ins and registrations of a known and of a new identity, and deposits
NextAccount ==
    \E c \in Calls :
        \/ \E u \in AllUserIds : SyncExternalUserCall(c, u)
        \/ SyncExternalUserRead(c)
        \/ SyncExternalUserSet(c)
        \/ \E u \in AllUserIds : RegisterCall(c, u)
        \/ RegisterCreate(c)
        \/ RegisterSet(c)
        \/ \E u \in AllUserIds, amt \in DepositAmounts : AddFundsCall(c, u, amt)
        \/ AddFundsUpdate(c)
        \/ AddFundsRecord(c)
        \/ AddFundsReturn(c)

SpecAccount == Init /\ [][NextAccount]_vars

\* submissions with any payload, and the administrator's decisions on what
\* was submitted
NextSubmit ==
    \/ \E c \in Calls :
          \/ \E u \in UserIds, payload \in Payloads : SubmitProductCall(c, u, payload)
          \/ SubmitProductRead(c)
          \/ SubmitProductAdd(c)
    \/ \E p \in AllProductIds : ApproveProduct(p) \/ RejectProduct(p)

SpecSubmit == Init /\ [][NextSubmit]_vars

\* the account has deposited once
InitFunded ==
    /\ \E amt \in DepositAmounts :
          /\ users = [u \in AllUserIds |->
                        IF u \in UserIds THEN [NewUser EXCEPT !.walletBalance = amt]
                        ELSE NoAccount]
          /\ transactions = <<Txn(CHOOSE u \in UserIds : TRUE, amt, "deposit")>>
    /\ products = [p \in AllProductIds |->
                      IF p \in ProductIds THEN NewProduct(p) ELSE NoProductDoc]
    /\ requests = <<>>
    /\ calls = [c \in Calls |-> IdleCall]
    /\ now = 0

\* product pages opened (App.tsx:613) and wallet purchases while the
\* administrator approves and rejects
NextViews ==
    \/ \E c \in Calls :
          \/ \E p \in AllProductIds : GetProductByIdCall(c, p)
          \/ GetProductByIdRead(c)
          \/ GetProductByIdView(c)
          \/ \E u \in UserIds, p \in ProductIds : CreateRequestCall(c, u, p, TRUE)
          \/ CreateRequestReadUser(c)
          \/ CreateRequestReadProduct(c)
          \/ CreateRequestView(c)
          \/ CreateRequestCharge(c)
          \/ CreateRequestSale(c)
          \/ CreateRequestRecord(c)
          \/ CreateRequestAdd(c)
    \/ Moderate

SpecViews == InitFunded /\ [][NextViews]_vars

\* createRequest with any uid and any product id a caller can pass
NextUnknown ==
    \E c \in Calls :
        \/ \E u \in AllUserIds, p \in AllProductIds, wallet \in BOOLEAN :
              CreateRequestCall(c, u, p, wallet)
        \/ CreateRequestReadUser(c)
        \/ CreateRequestReadProduct(c)
        \/ CreateRequestView(c)
        \/ CreateRequestCharge(c)
        \/ CreateRequestSale(c)
        \/ CreateRequestRecord(c)
        \/ CreateRequestAdd(c)

SpecUnknown == InitFunded /\ [][NextUnknown]_vars

\* deposits, upgrades and profile writes on the account, where an awaited
\* write may reject
NextUpgradeFault ==
    \E c \in Calls :
        \/ \E u \in UserIds, p \in ProductIds : ToggleWishlistCall(c, u, p)
        \/ ToggleWishlistRead(c)
        \/ ToggleWishlistWrite(c)
        \/ \E u \in UserIds, amt \in DepositAmounts : AddFundsCall(c, u, amt)
        \/ AddFundsUpdate(c)
        \/ AddFundsRecord(c)
        \/ AddFundsReturn(c)
        \/ \E u \in UserIds : UpgradeToProCall(c, u)
        \/ UpgradeToProRead(c)
        \/ UpgradeToProUpdate(c)
        \/ UpgradeToProRecord(c)
        \/ UpgradeToProReturn(c)
        \/ Fault(c)

SpecUpgradeFault == Init /\ [][NextUpgradeFault]_vars

\* the three operations that change a balance: addFunds, wallet createRequest
\* and upgradeToPro
NextLedger ==
    \E c \in Calls :
        \/ \E u \in UserIds, amt \in DepositAmounts : AddFundsCall(c, u, amt)
        \/ AddFundsUpdate(c)
        \/ AddFundsRecord(c)
        \/ AddFundsReturn(c)
        \/ \E u \in UserIds : UpgradeToProCall(c, u)
        \/ UpgradeToProRead(c)
        \/ UpgradeToProUpdate(c)
        \/ UpgradeToProRecord(c)
        \/ UpgradeToProReturn(c)
        \/ \E u \in UserIds, p \in ProductIds : CreateRequestCall(c, u, p, TRUE)
        \/ CreateRequestReadUser(c)
        \/ CreateRequestReadProduct(c)
        \/ CreateRequestView(c)
        \/ CreateRequestCharge(c)
        \/ CreateRequestSale(c)
        \/ CreateRequestRecord(c)
        \/ CreateRequestAdd(c)

SpecLedger == Init /\ [][NextLedger]_vars

\* toggleWishlist calls of one client or several (App.tsx:193-197)
NextWishlist ==
    \E c \in Calls :
        \/ \E u \in AllUserIds, p \in WishIds : ToggleWishlistCall(c, u, p)
        \/ ToggleWishlistRead(c)
        \/ ToggleWishlistWrite(c)

SpecWishlist == Init /\ [][NextWishlist]_vars

\* saveUserFilter and deleteUserFilter calls while time passes; a delete names
\* the id of a filter that was or may be saved
NextFilters ==
    \/ \E c \in Calls :
          \/ \E u \in UserIds, name \in FilterNames : SaveUserFilterCall(c, u, name)
          \/ SaveUserFilterRead(c)
          \/ SaveUserFilterWrite(c)
          \/ \E u \in UserIds, id \in 0..MaxNow : DeleteUserFilterCall(c, u, id)
          \/ DeleteUserFilterRead(c)
          \/ DeleteUserFilterWrite(c)
    \/ Tick

SpecFilters == Init /\ [][NextFilters]_vars

\* deposits and wallet purchases on the account, where an awaited write may
\* reject
NextPurchaseFault ==
    \E c \in Calls :
        \/ \E u \in UserIds, amt \in DepositAmounts : AddFundsCall(c, u, amt)
        \/ AddFundsUpdate(c)
        \/ AddFundsRecord(c)
        \/ AddFundsReturn(c)
        \/ \E u \in UserIds, p \in ProductIds : CreateRequestCall(c, u, p, TRUE)
        \/ CreateRequestReadUser(c)
        \/ CreateRequestReadProduct(c)
        \/ CreateRequestView(c)
        \/ CreateRequestCharge(c)
        \/ CreateRequestSale(c)
        \/ CreateRequestRecord(c)
        \/ CreateRequestAdd(c)
        \/ Fault(c)

SpecPurchaseFault == Init /\ [][NextPurchaseFault]_vars

\* =================================================================== claims
RECURSIVE SumAmounts(_, _)
\* the sum of the amounts of the transaction records of account u in log
SumAmounts(log, u) ==
    IF log = <<>> THEN 0
    ELSE SumAmounts(Tail(log), u) + (IF Head(log).userId = u THEN Head(log).amount ELSE 0)

RECURSIVE SumOver(_, _)
\* the sum of calls[c].amount over the calls c in S
SumOver(S, amountOf) ==
    IF S = {} THEN 0
    ELSE LET c == CHOOSE x \in S : TRUE IN amountOf[c] + SumOver(S \ {c}, amountOf)

Returned(c) == calls[c].st \in {"ok", "err"}
Succeeded(c) == calls[c].st = "ok"
AllReturned == \A c \in Calls : calls[c].st = "idle" \/ Returned(c)

WalletPurchases == {c \in Calls : calls[c].op = "createRequest" /\ calls[c].isWalletPurchase}
Upgrades == {c \in Calls : calls[c].op = "upgradeToPro"}
Deposits == {c \in Calls : calls[c].op = "addFunds"}

\* the writes of each operation, in the order the code issues them
WritesOf(k) ==
    IF k.op = "addFunds" THEN <<"updateBalance", "addTransaction">>
    ELSE IF k.op = "upgradeToPro" THEN <<"updateUser", "addTransaction">>
    ELSE IF k.op = "createRequest" /\ k.isWalletPurchase
      THEN <<"updateBalance", "salesCount", "addTransaction", "addRequest">>
    ELSE IF k.op = "createRequest" THEN <<"addRequest">>
    ELSE <<>>

AllEffects(c) == {WritesOf(calls[c])[i] : i \in DOMAIN WritesOf(calls[c])}

\* the writes call c has made: all of them once it succeeded, none when it
\* threw before its first write, and else those before the write it stands at
Applied(c) ==
    LET k == calls[c]
        w == WritesOf(k)
    IN IF k.st = "ok" THEN AllEffects(c)
       ELSE IF k.st \in {"idle", "err"} THEN {}
       ELSE IF \E i \in DOMAIN w : w[i] = k.pc
         THEN {w[j] : j \in {j \in DOMAIN w : \A i \in DOMAIN w : w[i] = k.pc => j < i}}
       ELSE IF k.pc = "readBack" THEN AllEffects(c)
       ELSE {}

ApprovedWalletRequests(p) ==
    {i \in DOMAIN requests :
        /\ requests[i].productId = p
        /\ requests[i].status = "approved"
        /\ requests[i].isWalletPurchase}

\* C1: every account's walletBalance is >= 0 in every reachable state
C1_BalanceNonNegative ==
    \A u \in UserIds : users[u].walletBalance >= 0

\* C2: at every state the amounts of an account's TransactionRecords sum to
\* its walletBalance, between the writes of an operation too
C2_LogSumsToBalance ==
    \A u \in UserIds : SumAmounts(transactions, u) = users[u].walletBalance

\* C3: every multi-step unit is all-or-nothing: in every state, and after a
\* fault, a call has applied either none of its writes or all of them
C3_AllOrNothing ==
    \A c \in Calls : Applied(c) = {} \/ Applied(c) = AllEffects(c)

\* C4: when N wallet createRequest calls all saw balance b and N > b \div p,
\* then once all have returned exactly b \div p succeeded, the others failed
\* with insufficient balance, the balance is b - p * (b \div p) and the
\* product's salesCount is the number of successes
C4_ConcurrentPurchases ==
    \A p \in ProductIds : \A b \in DepositAmounts :
        LET P == {c \in WalletPurchases : calls[c].productId = p}
            ok == {c \in P : Succeeded(c)}
            short == {c \in P : calls[c].result = "insufficient-balance"}
            k == b \div PriceOf(p)
        IN (/\ AllReturned
            /\ Upgrades = {}
            /\ WalletPurchases = P
            /\ Cardinality(P) > k
            /\ \A c \in P : calls[c].userId = "u1" /\ calls[c].user.walletBalance = b
            /\ Cardinality(Deposits) = 1)
           => /\ Cardinality(ok) = k
              /\ Cardinality(short) = Cardinality(P) - k
              /\ users["u1"].walletBalance = b - PriceOf(p) * k
              /\ products[p].salesCount = k

\* C5: once all calls have returned, the balance equals what was deposited
\* minus the sum of the amounts (price, subscription fee) of the charging
\* calls that reported success, whatever the interleaving
C5_FinalBalance ==
    AllReturned =>
        \A u \in UserIds :
            LET mine(S) == {c \in S : calls[c].userId = u /\ Succeeded(c)}
                paid == [c \in Calls |->
                            IF c \in WalletPurchases THEN PriceOf(calls[c].productId)
                            ELSE IF c \in Upgrades THEN ProFee
                            ELSE calls[c].amount]
            IN users[u].walletBalance =
                   SumOver(mine(Deposits), paid)
                   - SumOver(mine(WalletPurchases) \cup mine(Upgrades), paid)

\* C5 witness: all calls returned, two charging calls both reported success on
\* a balance that covered only one of them (they raced)
C5_Witness ==
    /\ AllReturned
    /\ \E c, d \in WalletPurchases \cup Upgrades :
          c # d /\ Succeeded(c) /\ Succeeded(d) /\ calls[c].userId = calls[d].userId
    /\ users["u1"].walletBalance < 0
    /\ products["p1"].approved

\* C6: at most one pending or approved PurchaseRequest per (account, product)
C6_AtMostOneActive ==
    \A u \in UserIds, p \in ProductIds : Cardinality(ActiveRequests(u, p)) <= 1

\* C7: a wallet createRequest called while the pair has an active request
\* does not succeed and applies none of its writes (no charge, no sale
\* counted, no transaction record, no second request)
C7_DuplicateRejected ==
    \A c \in WalletPurchases :
        calls[c].activeAtCall => Applied(c) = {} /\ ~Succeeded(c)

\* C8: at every state a product's salesCount equals the number of approved
\* wallet-purchase PurchaseRequests for it
C8_SalesCountMatches ==
    \A p \in ProductIds : products[p].salesCount = Cardinality(ApprovedWalletRequests(p))

\* C9: a product that is approved or rejected keeps its moderation state:
\* approveProduct and rejectProduct take effect on a pending product only
C9_ModerationOneShot ==
    [][\A p \in ProductIds :
          ModerationState(products[p]) # "pending"
              => ModerationState(products'[p]) = ModerationState(products[p])]_vars

\* C10: a wallet createRequest charges, counts a sale, records a transaction
\* and creates its request only while the product is approved
C10_PurchaseOnlyApproved ==
    [][\A c \in WalletPurchases :
          (/\ calls[c].st = "run"
           /\ calls[c].pc \in {"updateBalance", "salesCount", "addTransaction", "addRequest"}
           /\ calls'[c] # calls[c])
              => ModerationState(products[calls[c].productId]) = "approved"]_vars

\* the records of account u in the log that have this amount and type
Records(u, amt, type) ==
    {i \in DOMAIN transactions : transactions[i] = [userId |-> u, amount |-> amt, type |-> type]}
RecordsOfType(u, type) ==
    {i \in DOMAIN transactions : transactions[i].userId = u /\ transactions[i].type = type}

\* the call has read the account and found less than the product's price
ReadBelowPrice(c) ==
    /\ calls[c].user.exists
    /\ calls[c].user.walletBalance < PriceOf(calls[c].productId)

\* C11: a wallet createRequest that finds the balance below the price fails
\* with insufficient balance and makes none of its writes; while no wallet
\* createRequest found the price covered there is no purchase record, no
\* wallet request and no sale counted
C11_InsufficientFundsNoEffect ==
    /\ \A c \in WalletPurchases :
          ReadBelowPrice(c) =>
              /\ Applied(c) = {}
              /\ ~Succeeded(c)
              /\ Returned(c) => calls[c].result = "insufficient-balance"
    /\ (\A c \in WalletPurchases : calls[c].pc = "getUser" \/ ReadBelowPrice(c))
          => /\ \A u \in UserIds : RecordsOfType(u, "purchase") = {}
             /\ \A i \in DOMAIN requests : ~requests[i].isWalletPurchase
             /\ \A p \in ProductIds : products[p].salesCount = 0

\* C11 witness: a wallet createRequest found a balance that is positive but
\* below the price, has failed, and the balance is what it found
C11_Witness ==
    \E c \in WalletPurchases :
        /\ Returned(c)
        /\ calls[c].result = "insufficient-balance"
        /\ calls[c].user.walletBalance > 0
        /\ users[calls[c].userId].walletBalance = calls[c].user.walletBalance

\* C12: once all calls have returned and the only createRequest among them is
\* one successful wallet purchase, the balance is down by exactly the price,
\* the log has exactly one purchase record, of amount -price, there is exactly
\* one request, approved, wallet, with approvedAt set, and salesCount is 1
C12_PurchaseEffects ==
    \A c \in WalletPurchases :
        (/\ AllReturned
         /\ Succeeded(c)
         /\ {d \in Calls : calls[d].op = "createRequest"} = {c})
        => LET u == calls[c].userId
               p == calls[c].productId
               okOn(S) == {d \in S : calls[d].userId = u /\ Succeeded(d)}
               amountOf == [d \in Calls |-> calls[d].amount]
           IN /\ users[u].walletBalance =
                    SumOver(okOn(Deposits), amountOf)
                    - ProFee * Cardinality(okOn(Upgrades)) - PriceOf(p)
              /\ Cardinality(RecordsOfType(u, "purchase")) = 1
              /\ Cardinality(Records(u, -PriceOf(p), "purchase")) = 1
              /\ Len(requests) = 1
              /\ requests[1].userId = u
              /\ requests[1].productId = p
              /\ requests[1].status = "approved"
              /\ requests[1].isWalletPurchase
              /\ requests[1].approvedAt = now
              /\ products[p].salesCount = 1

\* C12 witness: a deposit and then one wallet purchase of the approved product
C12_Witness ==
    /\ AllReturned
    /\ Upgrades = {}
    /\ \E c \in WalletPurchases :
          Succeeded(c) /\ {d \in Calls : calls[d].op = "createRequest"} = {c}
    /\ products["p1"].approved
    /\ users["u1"].walletBalance = 400

C14_RequestHasRecord ==
    \A u \in UserIds, p \in ProductIds :
        Cardinality({i \in ApprovedWalletRequests(p) : requests[i].userId = u})
            <= Cardinality(Records(u, -PriceOf(p), "purchase"))

\* C14 witness: an approved wallet request exists while another purchase has
\* stopped at a rejected write
C14_Witness ==
    /\ \E i \in DOMAIN requests : requests[i].status = "approved" /\ requests[i].isWalletPurchase
    /\ \E c \in WalletPurchases : calls[c].st = "fault"

\* C15: no step of an external-proof createRequest changes an account, the
\* log or a salesCount, and the call's last step adds one request, pending,
\* with approvedAt null
C15_ExternalProofNoLedgerEffect ==
    [][\A c \in Calls :
          (/\ calls'[c].op = "createRequest"
           /\ ~calls'[c].isWalletPurchase
           /\ calls'[c] # calls[c])
          => /\ users' = users
             /\ transactions' = transactions
             /\ \A p \in ProductIds : products'[p].salesCount = products[p].salesCount
             /\ IF calls'[c].st = "ok"
                THEN requests' = Append(requests,
                        [userId |-> calls[c].userId, productId |-> calls[c].productId,
                         status |-> "pending", approvedAt |-> NoTime,
                         isWalletPurchase |-> FALSE])
                ELSE requests' = requests]_vars

\* C15 witness: an external-proof createRequest has succeeded on a funded
\* account and its pending request is there
C15_Witness ==
    /\ \E c \in Calls :
          calls[c].op = "createRequest" /\ ~calls[c].isWalletPurchase /\ Succeeded(c)
    /\ \E i \in DOMAIN requests : requests[i].status = "pending"
    /\ users["u1"].walletBalance > 0

\* C16: a pending request can be resolved: while the program can still take
\* calls, some step turns a pending request into an approved or a rejected one
C16_PendingCanResolve ==
    \A i \in DOMAIN requests :
        (requests[i].status = "pending" /\ \E c \in Calls : calls[c].st = "idle")
        => ENABLED (Next /\ requests'[i].status \in {"approved", "rejected"})

\* C17: an addFunds call with amount > 0 on an existing account succeeds, and
\* once every call has returned the balance is the sum of the amounts of the
\* addFunds calls that succeeded less the fee of each upgrade, with one
\* deposit record of that amount per such call; an addFunds call on an uid
\* without account fails with not-found, and such an uid never gets an
\* account nor a record
C17_AddFunds ==
    /\ \A u \in MissingUserIds :
          /\ ~users[u].exists
          /\ \A i \in DOMAIN transactions : transactions[i].userId # u
    /\ \A c \in Deposits :
          Returned(c) =>
             IF calls[c].userId \in MissingUserIds
             THEN calls[c].st = "err" /\ calls[c].result = "not-found"
             ELSE Succeeded(c)
    /\ AllReturned =>
          \A u \in UserIds :
             /\ users[u].walletBalance =
                   SumOver({c \in Deposits : calls[c].userId = u /\ Succeeded(c)},
                           [c \in Calls |-> calls[c].amount])
                   - ProFee * Cardinality({c \in Upgrades : calls[c].userId = u /\ Succeeded(c)})
             /\ \A a \in AnyAmounts :
                   a > 0 => Cardinality(Records(u, a, "deposit")) =
                            Cardinality({c \in Deposits : /\ calls[c].userId = u
                                                         /\ calls[c].amount = a
                                                         /\ Succeeded(c)})

\* C17 witness: every call has returned, an addFunds on the uid without
\* account has failed and an addFunds of a positive amount on the account has
\* succeeded
C17_Witness ==
    /\ AllReturned
    /\ \E c \in Deposits : calls[c].userId \in MissingUserIds /\ calls[c].st = "err"
    /\ \E c \in Deposits :
          calls[c].userId \in UserIds /\ calls[c].amount > 0 /\ Succeeded(c)
    /\ \E u \in UserIds : users[u].walletBalance > 0 /\ RecordsOfType(u, "deposit") # {}

\* C18: no step of an addFunds call with a zero or negative amount changes an
\* account or the log, and such a call never succeeds
C18_MalformedDepositRejected ==
    [][\A c \in Calls :
          (/\ calls'[c].op = "addFunds"
           /\ calls'[c].amount <= 0
           /\ calls'[c] # calls[c])
          => /\ users' = users
             /\ transactions' = transactions
             /\ calls'[c].st # "ok"]_vars

\* the upgradeToPro calls on account u that succeeded
UpgradedOk(u) == {c \in Upgrades : calls[c].userId = u /\ Succeeded(c)}

\* C19: an upgradeToPro call that reads a balance of at least 999 goes on and
\* succeeds; its write takes exactly 999 from the balance, sets isPro and
\* sets proExpiry to the time of the write plus 365 days; and once every call
\* has returned the balance is the deposits less 999 per upgrade, with one
\* subscription record of -999 per upgrade, and isPro is set exactly when an
\* upgrade succeeded
C19_UpgradeToPro ==
    [][/\ \A c \in Calls :
            (calls[c].op = "upgradeToPro" /\ calls'[c] # calls[c]) =>
               LET u == calls[c].userId IN
               /\ (calls[c].pc = "getUser" /\ users[u].walletBalance >= ProFee)
                     => calls'[c].pc = "updateUser"
               /\ calls[c].pc = "updateUser"
                     => /\ users'[u] = [users[u] EXCEPT
                                          !.walletBalance = users[u].walletBalance - ProFee,
                                          !.isPro = TRUE,
                                          !.proExpiry = now + ProDuration]
                        /\ transactions' = transactions
               /\ calls[c].pc # "getUser" => calls'[c].st \in {"run", "ok"}
       /\ AllReturned' =>
            \A u \in UserIds :
               /\ users'[u].walletBalance =
                     SumOver({c \in Deposits : calls[c].userId = u /\ Succeeded(c)},
                             [c \in Calls |-> calls[c].amount])'
                     - ProFee * Cardinality(UpgradedOk(u))'
               /\ RecordsOfType(u, "subscription")' = Records(u, -ProFee, "subscription")'
               /\ Cardinality(RecordsOfType(u, "subscription"))' = Cardinality(UpgradedOk(u))'
               /\ users'[u].isPro = (UpgradedOk(u)' # {})]_vars

\* C19 witness: one deposit and then one upgradeToPro have succeeded, nothing
\* else was called; the balance is the deposit less the fee, isPro is set,
\* proExpiry is the latest time plus 365 days and the log has the one
\* subscription record
C19_Witness ==
    /\ AllReturned
    /\ \E u \in UserIds, a \in DepositAmounts :
          /\ Cardinality(UpgradedOk(u)) = 1
          /\ Cardinality({c \in Calls : calls[c].st # "idle"}) = 1 + 1
          /\ users[u].walletBalance = a - ProFee
          /\ users[u].isPro
          /\ users[u].proExpiry = MaxNow + ProDuration
          /\ Cardinality(Records(u, -ProFee, "subscription")) = 1

\* C20: when an upgradeToPro call comes to its balance check or to its charge
\* while the balance is below the fee, the call fails there and the account
\* (balance, isPro, proExpiry) and the log stay as they are
C20_FailedChargeNoEffect ==
    [][\A c \in Calls :
          (/\ calls[c].op = "upgradeToPro"
           /\ calls[c].pc \in {"getUser", "updateUser"}
           /\ calls'[c] # calls[c]
           /\ users[calls[c].userId].walletBalance < ProFee)
          => /\ users' = users
             /\ transactions' = transactions
             /\ calls'[c].st = "err"]_vars

\* C21: an upgradeToPro call on an account that is Pro already and holds the
\* fee goes on to its charge; the charge on a Pro account takes the fee
\* again, leaves isPro set and sets proExpiry to the time of the write plus
\* the duration, whatever proExpiry was; and the call adds its subscription
\* record
C21_ReUpgrade ==
    [][\A c \in Calls :
          (/\ calls[c].op = "upgradeToPro"
           /\ calls'[c] # calls[c]
           /\ users[calls[c].userId].isPro) =>
             LET u == calls[c].userId IN
             /\ (calls[c].pc = "getUser" /\ users[u].walletBalance >= ProFee)
                   => calls'[c].pc = "updateUser"
             /\ calls[c].pc = "updateUser"
                   => /\ users'[u].walletBalance = users[u].walletBalance - ProFee
                      /\ users'[u].isPro
                      /\ users'[u].proExpiry = now + ProDuration
             /\ calls[c].pc = "addTransaction"
                   => transactions' = Append(transactions, Txn(u, -ProFee, "subscription"))
             /\ calls[c].pc = "readBack" => calls'[c].st = "ok"]_vars

\* C21 witness: two upgradeToPro calls have succeeded one after the other on
\* the account, the second at the latest time: both fees are charged and
\* recorded and proExpiry is that time plus one duration, not two
C21_Witness ==
    /\ AllReturned
    /\ now = MaxNow
    /\ \E u \in UserIds :
          /\ Cardinality(UpgradedOk(u)) = 1 + 1
          /\ users[u].walletBalance = 0
          /\ users[u].isPro
          /\ users[u].proExpiry = MaxNow + ProDuration
          /\ users[u].proExpiry < ProDuration + ProDuration
          /\ Cardinality(Records(u, -ProFee, "subscription")) = 1 + 1

\* the orders in which the calls of S can be run one after the other
Orders(S) ==
    {o \in [1..Cardinality(S) -> S] : \A i, j \in DOMAIN o : i # j => o[i] # o[j]}

RECURSIVE ToggledInOrder(_, _)
\* the wishlist after the first n toggles of order o, from the empty wishlist
ToggledInOrder(o, n) ==
    IF n = 0 THEN <<>>
    ELSE Toggle(ToggledInOrder(o, n - 1), calls[o[n]].productId)

ToggledOk(u) ==
    {c \in Calls : calls[c].op = "toggleWishlist" /\ calls[c].userId = u /\ Succeeded(c)}

\* C22: once every toggleWishlist call has returned, the account's wishlist
\* is what the calls that succeeded give when run one after the other in
\* some order
C22_WishlistSerializable ==
    AllReturned =>
       \A u \in UserIds :
          \E o \in Orders(ToggledOk(u)) :
             users[u].wishlist = ToggledInOrder(o, Cardinality(ToggledOk(u)))

\* what a filter call that ran alone on the list would leave
FilterCallOn(filters, k) ==
    IF k.op = "saveUserFilter"
    THEN Append(filters, NewFilter(k.filterName, k.filterId))
    ELSE WithoutFilter(filters, k.filterId)

RECURSIVE FiltersInOrder(_, _)
\* the list after the first n filter calls of order o, from the empty list
FiltersInOrder(o, n) ==
    IF n = 0 THEN <<>>
    ELSE FilterCallOn(FiltersInOrder(o, n - 1), calls[o[n]])

FilterCallsOk(u) ==
    {c \in Calls : /\ calls[c].op \in {"saveUserFilter", "deleteUserFilter"}
                   /\ calls[c].userId = u
                   /\ Succeeded(c)}

\* C23: once every saveUserFilter and deleteUserFilter call has returned, the
\* account's savedFilters is what the calls that succeeded give when run one
\* after the other in some order (each save with the id it made)
C23_FiltersSerializable ==
    AllReturned =>
       \A u \in UserIds :
          \E o \in Orders(FilterCallsOk(u)) :
             users[u].savedFilters = FiltersInOrder(o, Cardinality(FilterCallsOk(u)))

\* C24: a step that creates an account creates it with balance zero, not Pro,
\* with empty wishlist and filters, and no step of a syncExternalUser or
\* register call changes an account that exists
C24_AccountCreatedOnce ==
    [][/\ \A u \in AllUserIds :
            (~users[u].exists /\ users'[u].exists) => users'[u] = NewUser
       /\ \A c \in Calls :
            (/\ calls[c].op \in {"syncExternalUser", "register"}
             /\ calls'[c] # calls[c]
             /\ users[calls[c].userId].exists)
            => users' = users]_vars

\* C25: a product that submitProduct creates is pending (neither approved nor
\* rejected) and its viewCount, salesCount and downloadCount are zero,
\* whatever the payload carried
C25_SubmittedPending ==
    [][\A p \in AllProductIds :
          (~products[p].exists /\ products'[p].exists) =>
             /\ ModerationState(products'[p]) = "pending"
             /\ ~products'[p].approved /\ ~products'[p].rejected
             /\ products'[p].viewCount = 0
             /\ products'[p].salesCount = 0
             /\ products'[p].downloadCount = 0]_vars

\* the calls that found product p and have made their viewCount increment
Viewers(p) ==
    {c \in Calls :
        /\ calls[c].op \in {"getProductById", "createRequest"}
        /\ calls[c].productId = p
        /\ calls[c].product.exists
        /\ calls[c].pc # "viewCount"}

\* C26: after every step the viewCount of a product is at least the number
\* of calls that found it and made their increment, and no step lowers a viewCount,
\* salesCount or downloadCount
C26_ViewsNotLost ==
    [][\A p \in ProductIds :
          /\ products'[p].viewCount >= Cardinality(Viewers(p))'
          /\ products'[p].viewCount >= products[p].viewCount
          /\ products'[p].salesCount >= products[p].salesCount
          /\ products'[p].downloadCount >= products[p].downloadCount]_vars

\* C26 witness: the product has been approved or rejected, a wallet purchase
\* of it has gone through, and every one of the calls has found it: its
\* viewCount is their number
C26_Witness ==
    \E p \in ProductIds :
        /\ ModerationState(products[p]) # "pending"
        /\ products[p].salesCount > 0
        /\ \E c \in Viewers(p) : calls[c].op = "getProductById"
        /\ Cardinality(Viewers(p)) = NCalls
        /\ products[p].viewCount = NCalls

\* C27: no step of a createRequest call whose account or product does not
\* exist changes an account, a product (its viewCount included), the log or
\* the requests, and such a call does not succeed
C27_UnknownEntityNoEffect ==
    [][\A c \in Calls :
          (/\ calls[c].op = "createRequest"
           /\ calls'[c] # calls[c]
           /\ \/ ~users[calls[c].userId].exists
              \/ ~products[calls[c].productId].exists)
          => /\ users' = users
             /\ products' = products
             /\ transactions' = transactions
             /\ requests' = requests
             /\ calls'[c].st # "ok"]_vars

\* C28: in a state where every call that was started has returned, each
\* account's balance is the sum of the amounts of its transaction records
C28_QuiescentConsistency ==
    AllReturned =>
       \A u \in UserIds : users[u].walletBalance = SumAmounts(transactions, u)

\* C28 witness: a deposit, an upgrade and a wallet purchase have all
\* succeeded and nothing is running; the upgrade and the purchase raced, so
\* the balance is below zero
C28_Witness ==
    /\ AllReturned
    /\ \E c \in Deposits : Succeeded(c)
    /\ \E c \in Upgrades : Succeeded(c)
    /\ \E c \in WalletPurchases : Succeeded(c)
    /\ \E u \in UserIds : users[u].walletBalance < 0 /\ Len(transactions) = NCalls

\* the purchase records written for product p (a record carries the price)
PurchaseRecordsFor(p) ==
    {i \in DOMAIN transactions :
        transactions[i].type = "purchase" /\ transactions[i].amount = -PriceOf(p)}

\* C29: in every state, between the writes of a wallet createRequest and
\* after a rejected write too, a product has at most as many approved wallet
\* requests as its salesCount says and as there are purchase records for it
C29_RequestIsLastWrite ==
    \A p \in ProductIds :
        /\ Cardinality(ApprovedWalletRequests(p)) <= products[p].salesCount
        /\ Cardinality(ApprovedWalletRequests(p)) <= Cardinality(PurchaseRecordsFor(p))

\* C29 witness: one wallet purchase has added its request, a second one has
\* stopped at a rejected write after its sale was counted and recorded
C29_Witness ==
    \E p \in ProductIds :
        /\ ApprovedWalletRequests(p) # {}
        /\ \E c \in WalletPurchases : calls[c].st = "fault" /\ calls[c].pc = "addRequest"
        /\ Cardinality(ApprovedWalletRequests(p)) < products[p].salesCount
        /\ Cardinality(ApprovedWalletRequests(p)) < Cardinality(PurchaseRecordsFor(p))

\* what the addFunds calls have put on account u so far: the amounts of the
\* calls that are past their balance write
Deposited(u) ==
    SumOver({c \in Deposits : /\ calls[c].userId = u
                              /\ calls[c].pc # "updateBalance"
                              /\ calls[c].st # "err"},
            [c \in Calls |-> calls[c].amount])

\* C30: after every step, an account whose balance is below what was
\* deposited on it (the fee has been debited) is Pro, and a Pro account has a
\* proExpiry; and no step takes isPro away from an account
C30_UpgradeSingleWrite ==
    [][\A u \in UserIds :
          /\ (users[u].walletBalance < Deposited(u))' => users'[u].isPro
          /\ users'[u].isPro => users'[u].proExpiry # NoExpiry
          /\ users[u].isPro => users'[u].isPro]_vars

\* C30 witness: an upgradeToPro call has stopped at the rejected write of its
\* record: the fee is debited, isPro and proExpiry are set, and there is no
\* subscription record
C30_Witness ==
    \E c \in Upgrades :
        /\ calls[c].st = "fault" /\ calls[c].pc = "addTransaction"
        /\ users[calls[c].userId].walletBalance < Deposited(calls[c].userId)
        /\ users[calls[c].userId].isPro
        /\ users[calls[c].userId].proExpiry # NoExpiry
        /\ RecordsOfType(calls[c].userId, "subscription") = {}
====
